---- MODULE Spec2Model ----
(***************************************************************************)
(* ftplace_script: the reconciliation-and-scheduling engine.               *)
(*                                                                         *)
(* main (src/src/main.rs) runs the control loop and the cascade over the   *)
(* five pattern slots; PlaceClient (src/src/place_client.rs) fetches the   *)
(* board, places pixels and computes the cooldown.                         *)
(*                                                                         *)
(* Time is in milliseconds and is measured from the current instant: the   *)
(* value of Utc::now() is the origin of the time axis (now == 0), a stored *)
(* instant (next_update, a timer of the server) is held as its distance    *)
(* from now, and the passage of d milliseconds moves every stored instant  *)
(* d closer (Elapse). The program only ever compares and subtracts         *)
(* instants, so this is a change of coordinates.                           *)
(*                                                                         *)
(* Option<T> is a sequence: <<>> is None and <<v>> is Some(v).             *)
(***************************************************************************)
EXTENDS Integers, Sequences, FiniteSets, TLC

\* ------------------------------------------------------------------ constants
MAX_PIXELS_PER_BATCH == 10
BATCH_DELAY_MINUTES == 31
MAX_RETRIES == 10
\* RETRY_DELAY = Duration::from_secs(120), in milliseconds
RETRY_DELAY == 120000
\* the board is BOARD_SIZE x BOARD_SIZE (250 in the source); the model checks a
\* small board
BOARD_SIZE == 3
\* let max_retries = 3 in process_pattern
max_retries == 3
\* sleep(Duration::from_millis(500)) between two attempts on a cell
ATTEMPT_DELAY == 500
\* sleep(Duration::from_secs(10)) of the control loop, in milliseconds
POLL_DELAY == 10000
\* the five pattern slots of main: defensive1, defensive2, build1..build3
NUM_SLOTS == 5
\* status == 426: the credentials have expired
STATUS_EXPIRED == 426
\* reqwest::StatusCode::BAD_GATEWAY
BAD_GATEWAY == 502

None == <<>>
Some(v) == <<v>>
IsSome(o) == Len(o) = 1
Unwrap(o) == o[1]

now == 0

\* d milliseconds pass: a stored instant comes d closer; an instant that is not
\* ahead of now stays "not ahead" (only t > now is ever observed of it)
Elapse(t, d) == IF t - d < now THEN now ELSE t - d

\* the same for an instant that may be absent
ElapseSome(o, d) == IF IsSome(o) THEN Some(Elapse(Unwrap(o), d)) ELSE o

Coords == 0 .. (BOARD_SIZE - 1)

\* ------------------------------------------------------------ board transform
\* rotated_matrix[x][BOARD_SIZE - 1 - y] = board_matrix[y][x]
Rotate(m) ==
  [r \in Coords |-> [c \in Coords |-> m[BOARD_SIZE - 1 - c][r]]]

\* (mutation) the mirror is taken top to bottom
MirrorVertical(m) ==
  [r \in Coords |-> [c \in Coords |-> m[BOARD_SIZE - 1 - r][c]]]

\* final_matrix[y][BOARD_SIZE - 1 - x] = rotated_matrix[y][x]
Mirror(m) ==
  [r \in Coords |-> [c \in Coords |-> m[r][BOARD_SIZE - 1 - c]]]

Transform(raw) == Mirror(Rotate(raw))

\* ------------------------------------------------------ calculate_wait_interval
\* A timer string is modelled by what parse_from_rfc3339 makes of it: None when
\* it does not parse, Some(t) for the instant t.
RECURSIVE EarliestAvailable(_, _)
EarliestAvailable(timers, earliest) ==
  IF timers = <<>> THEN earliest
  ELSE LET timer == Head(timers)
           next == IF IsSome(timer)
                   THEN IF IsSome(earliest)
                        THEN IF Unwrap(timer) < Unwrap(earliest)
                             THEN timer ELSE earliest
                        ELSE timer
                   ELSE earliest
       IN EarliestAvailable(Tail(timers), next)

\* (mutation) the seconds are rounded up
NumSecondsRoundedUp(ms) == (ms + 999) \div 1000

\* wait_duration.num_seconds(): whole seconds, truncated toward zero
NumSeconds(ms) == IF ms >= 0 THEN ms \div 1000 ELSE -((-ms) \div 1000)

\* the fallback, Duration::from_secs(BATCH_DELAY_MINUTES * 60), in seconds
FallbackWait == BATCH_DELAY_MINUTES * 60

\* the Duration returned, in seconds, for a payload that parsed
calculate_wait_interval(timers, t_now) ==
  LET earliest_available == EarliestAvailable(timers, None)
  IN IF IsSome(earliest_available) /\ Unwrap(earliest_available) > t_now
     THEN NumSeconds(Unwrap(earliest_available) - t_now) + 1
     ELSE FallbackWait

\* ------------------------------------------------------------------ place_pixel
\* status.is_success(): a 2xx status
IsSuccess(status) == status >= 200 /\ status <= 299

\* serde_json::from_str::<TimerResponse>: the payload is JSON and holds the
\* required field timers (message is optional)
ParsesAsTimerResponse(body) == body.json /\ IsSome(body.timers)

\* What place_pixel returns: Ok((needs_refresh, wait)) or Err.
Ok(needs_refresh, wait) ==
  [ok |-> TRUE, needs_refresh |-> needs_refresh, wait |-> wait]
Err == [ok |-> FALSE, needs_refresh |-> FALSE, wait |-> None]

\* (mutation) the two cookies are stored in each other's field
RECURSIVE ApplyCookiesSwapped(_, _)
ApplyCookiesSwapped(a, cookies) ==
  IF cookies = <<>> THEN [auth |-> a, ok |-> TRUE]
  ELSE LET cookie == Head(cookies)
       IN IF ~cookie.readable THEN [auth |-> a, ok |-> FALSE]
          ELSE IF cookie.name = "token"
               THEN ApplyCookiesSwapped([a EXCEPT !.refresh_token = cookie.value],
                                        Tail(cookies))
          ELSE IF cookie.name = "refresh"
               THEN ApplyCookiesSwapped([a EXCEPT !.token = cookie.value],
                                        Tail(cookies))
          ELSE ApplyCookiesSwapped(a, Tail(cookies))

\* (mutation) a new token clears the refresh token
RECURSIVE ApplyCookiesResetting(_, _)
ApplyCookiesResetting(a, cookies) ==
  IF cookies = <<>> THEN [auth |-> a, ok |-> TRUE]
  ELSE LET cookie == Head(cookies)
       IN IF ~cookie.readable THEN [auth |-> a, ok |-> FALSE]
          ELSE IF cookie.name = "token"
               THEN ApplyCookiesResetting(
                      [refresh_token |-> "", token |-> cookie.value],
                      Tail(cookies))
          ELSE IF cookie.name = "refresh"
               THEN ApplyCookiesResetting(
                      [a EXCEPT !.refresh_token = cookie.value], Tail(cookies))
          ELSE ApplyCookiesResetting(a, Tail(cookies))

\* The loop over the set-cookie headers of a 426 answer. A header is
\* [readable, name, value]: to_str() fails on a header that is not visible
\* ASCII, and the ? returns the error with the fields written so far kept.
RECURSIVE ApplyCookies(_, _)
ApplyCookies(a, cookies) ==
  IF cookies = <<>> THEN [auth |-> a, ok |-> TRUE]
  ELSE LET cookie == Head(cookies)
       IN IF ~cookie.readable THEN [auth |-> a, ok |-> FALSE]
          ELSE IF cookie.name = "token"
               THEN ApplyCookies([a EXCEPT !.token = cookie.value], Tail(cookies))
          ELSE IF cookie.name = "refresh"
               THEN ApplyCookies([a EXCEPT !.refresh_token = cookie.value],
                                 Tail(cookies))
          ELSE ApplyCookies(a, Tail(cookies))

\* The available_time behind the Duration place_pixel returns for resp: the
\* earliest timer when calculate_wait_interval is called and takes the branch
\* available_time > now; None when it returns the fallback or is not called.
AvailableTime(resp, t_now) ==
  IF resp.transport_error \/ resp.status = STATUS_EXPIRED
     \/ ~ParsesAsTimerResponse(resp.body)
  THEN None
  ELSE LET timers == Unwrap(resp.body.timers)
           called == IF IsSuccess(resp.status) THEN timers # <<>>
                     ELSE resp.body.message = Some("Too early")
           earliest_available == EarliestAvailable(timers, None)
       IN IF called /\ IsSome(earliest_available)
             /\ Unwrap(earliest_available) > t_now
          THEN earliest_available
          ELSE None

\* (mutation) a failed placement goes back to the credentials of the command
\* line
place_pixel_recreating_auth(a, resp, t_now) ==
  LET initial == [refresh_token |-> "r0", token |-> "t0"]
  IN IF resp.transport_error
     THEN [auth |-> initial, result |-> Err]
     ELSE IF resp.status = STATUS_EXPIRED
     THEN LET applied == ApplyCookies(a, resp.cookies)
          IN [auth |-> applied.auth,
              result |-> IF applied.ok THEN Ok(TRUE, None) ELSE Err]
     ELSE IF ~IsSuccess(resp.status)
     THEN IF ParsesAsTimerResponse(resp.body)
             /\ resp.body.message = Some("Too early")
          THEN [auth |-> a,
                result |-> Ok(FALSE,
                    Some(calculate_wait_interval(Unwrap(resp.body.timers), t_now)))]
          ELSE [auth |-> initial, result |-> Err]
     ELSE [auth |-> a,
           result |-> Ok(FALSE,
               IF ParsesAsTimerResponse(resp.body)
                  /\ Unwrap(resp.body.timers) # <<>>
               THEN Some(calculate_wait_interval(Unwrap(resp.body.timers), t_now))
               ELSE None)]

\* place_pixel(auth, x, y, color_id) on the answer resp: the credentials it
\* leaves and what it returns.
place_pixel(a, resp, t_now) ==
  IF resp.transport_error
  THEN [auth |-> a, result |-> Err]
  ELSE IF resp.status = STATUS_EXPIRED
  THEN LET applied == ApplyCookies(a, resp.cookies)
       IN [auth |-> applied.auth,
           result |-> IF applied.ok THEN Ok(TRUE, None) ELSE Err]
  ELSE IF ~IsSuccess(resp.status)
  THEN IF ParsesAsTimerResponse(resp.body)
          /\ resp.body.message = Some("Too early")
       THEN [auth |-> a,
             result |-> Ok(FALSE,
                 Some(calculate_wait_interval(Unwrap(resp.body.timers), t_now)))]
       ELSE [auth |-> a, result |-> Err]
  ELSE [auth |-> a,
        result |-> Ok(FALSE,
            IF ParsesAsTimerResponse(resp.body)
               /\ Unwrap(resp.body.timers) # <<>>
            THEN Some(calculate_wait_interval(Unwrap(resp.body.timers), t_now))
            ELSE None)]

\* ------------------------------------------------------------ the environment
\* The timer lists the server sends, as instants relative to now: none, one
\* ahead, a later one, one behind followed by one ahead, an unparseable entry
\* followed by two ahead (latest first), only an unparseable entry.
TimerLists ==
  { <<>>,
    << Some(1500) >>,
    << Some(3200) >>,
    << Some(-1500), Some(3200) >>,
    << None, Some(3200), Some(1500) >>,
    << None >> }

NoJson == [json |-> FALSE, message |-> None, timers |-> None]
Json(message, timers) == [json |-> TRUE, message |-> message, timers |-> timers]

\* payloads of a 2xx answer: no JSON, or {timers: [...]}
SuccessBodies == {NoJson} \cup { Json(None, Some(t)) : t \in TimerLists }

\* payloads of a non-success answer: no JSON, {message: "Too early", timers},
\* {message: "Too early"} without timers, another message with timers
RejectBodies ==
  {NoJson, Json(Some("Too early"), None), Json(Some("Forbidden"), Some(<<>>))}
    \cup { Json(Some("Too early"), Some(t)) : t \in TimerLists }

Cookie(name, value) == [readable |-> TRUE, name |-> name, value |-> value]
Unreadable == [readable |-> FALSE, name |-> "", value |-> ""]

\* the set-cookie headers of a 426 answer
CookieLists ==
  { <<>>,
    << Cookie("token", "t1") >>,
    << Cookie("refresh", "r1") >>,
    << Cookie("token", "t1"), Cookie("refresh", "r1") >>,
    << Cookie("session", "s1") >>,
    << Cookie("token", "t1"), Cookie("refresh", "r1"), Unreadable >>,
    << Cookie("token", "t1"), Unreadable >> }

Http(status, cookies, body) ==
  [transport_error |-> FALSE, status |-> status, cookies |-> cookies, body |-> body]
TransportError ==
  [transport_error |-> TRUE, status |-> 0, cookies |-> <<>>, body |-> NoJson]

\* The answers to POST /api/set, by the kind of server a run faces.
\* A server that only throttles: 2xx and "Too early" answers with every timer list.
ServerCooldown ==
  { Http(200, <<>>, b) : b \in SuccessBodies }
    \cup { Http(400, <<>>, Json(Some("Too early"), Some(t))) : t \in TimerLists }

\* A server whose sessions expire: every set of set-cookie headers.
ServerExpiry ==
  { Http(200, <<>>, NoJson), Http(400, <<>>, NoJson) }
    \cup { Http(STATUS_EXPIRED, c, NoJson) : c \in CookieLists }

\* A server that fails: transport errors and every non-success payload.
ServerFaulty ==
  { TransportError, Http(200, <<>>, Json(None, Some(<<>>))) }
    \cup { Http(400, <<>>, b) : b \in RejectBodies }

\* A server that accepts, throttles or rejects.
ServerBusy ==
  { Http(200, <<>>, NoJson),
    Http(400, <<>>, Json(Some("Too early"), Some(<< Some(3200) >>))),
    Http(400, <<>>, Json(Some("Forbidden"), Some(<<>>))) }

\* A server that does a little of everything.
ServerMixed ==
  { Http(200, <<>>, NoJson),
    Http(200, <<>>, Json(None, Some(<< Some(1500) >>))),
    Http(400, <<>>, Json(Some("Too early"), Some(<< Some(3200) >>))),
    Http(400, <<>>, Json(Some("Forbidden"), Some(<<>>))),
    Http(STATUS_EXPIRED,
         << Cookie("token", "t1"), Cookie("refresh", "r1") >>, NoJson) }

\* the raw matrices GET /api/get?type=board returns (color_id of each pixel)
RawBoards ==
  { [y \in Coords |-> [x \in Coords |-> y * BOARD_SIZE + x]],
    [y \in Coords |-> [x \in Coords |-> 0]] }

\* every answer to GET /api/get?type=board: a connection error, a status
\* without a usable payload, or a 200 with a raw matrix
GetResponses ==
  { [kind |-> "connection_error", status |-> 0, raw |-> <<>>],
    [kind |-> "http", status |-> BAD_GATEWAY, raw |-> <<>>],
    [kind |-> "http", status |-> 500, raw |-> <<>>],
    [kind |-> "bad_json", status |-> 200, raw |-> <<>>] }
    \cup { [kind |-> "http", status |-> 200, raw |-> r] : r \in RawBoards }

\* ------------------------------------------------------------------- patterns
Px(x, y, color) == [x |-> x, y |-> y, color |-> color]
ArgSpecs(pattern, x, y, priority) ==
  [pattern |-> pattern, x |-> x, y |-> y, priority |-> priority]

\* number of pixels of the long pattern (255 is on no board of the model: each
\* of them needs correction)
LongLen == 10

Repeat(px, n) == [i \in 1 .. n |-> px]

\* a short pattern, a long one and another short one: more cells to correct
\* than the budget
InputBudget ==
  << ArgSpecs(<< Px(0, 0, 255) >>, 0, 0, 1),
     ArgSpecs(Repeat(Px(0, 0, 255), LongLen), 1, 1, 2),
     ArgSpecs(<< Px(1, 0, 255) >>, 1, 2, 3) >>

\* priorities 2, 1, 3; a pixel past the right edge, a pixel past the bottom
\* edge, a pixel that matches the first raw board only
InputPriority ==
  << ArgSpecs(<< Px(1, 0, 255), Px(BOARD_SIZE - 1, 0, 255) >>, 1, 0, 2),
     ArgSpecs(<< Px(1, 0, BOARD_SIZE), Px(0, 1, 255) >>, 0, 0, 1),
     ArgSpecs(<< Px(0, BOARD_SIZE, 255), Px(0, 0, 255) >>, 0, 0, 3) >>

\* equal priorities; a pixel left of the board, a pixel that matches every board
InputTies ==
  << ArgSpecs(<< Px(0, 0, 0), Px(1, 1, 255) >>, 0, 0, 1),
     ArgSpecs(<< Px(0, 1, 255), Px(-1, 0, 255), Px(1, 1, 255) >>, 0, 0, 1) >>

\* a pattern that names the cell (0, 0) twice, with two colours, and a second
\* pattern over the cell (1, 0) of the first, with the same colour
InputOverlap ==
  << ArgSpecs(<< Px(0, 0, 255), Px(0, 0, 254), Px(1, 0, 255) >>, 0, 0, 1),
     ArgSpecs(<< Px(1, 0, 255) >>, 0, 0, 2) >>

Run(input, answers) == [specs |-> input, server |-> answers]

\* the runs checked: the patterns configured and the server faced
Runs ==
  { Run(InputBudget, ServerBusy), Run(InputOverlap, ServerBusy) }
    \cup { Run(i, a) : i \in {InputPriority, InputTies},
                       a \in {ServerCooldown, ServerExpiry, ServerFaulty, ServerMixed} }

\* ArgSpecs::cmp: by priority alone
ArgSpecsLess(a, b) == a.priority < b.priority

\* The pattern loader: the specs sorted by priority, lower first, equal
\* priorities in input order (a stable insertion sort).
RECURSIVE InsertByPriority(_, _)
InsertByPriority(sorted, spec) ==
  IF sorted = <<>> THEN << spec >>
  ELSE IF ArgSpecsLess(spec, Head(sorted))
       THEN << spec >> \o sorted
       ELSE << Head(sorted) >> \o InsertByPriority(Tail(sorted), spec)

RECURSIVE SortByPriority(_)
SortByPriority(specs) ==
  IF specs = <<>> THEN <<>>
  ELSE InsertByPriority(SortByPriority(SubSeq(specs, 1, Len(specs) - 1)),
                        specs[Len(specs)])

\* The slots of main filled in that order: defensive1 (mandatory), then the
\* optional defensive2, build1, build2, build3 (None when not configured).
Slots(sorted) ==
  [k \in 1 .. NUM_SLOTS |-> IF k <= Len(sorted) THEN Some(sorted[k]) ELSE None]

\* ---------------------------------------------------------------------- state
VARIABLES
  pc,                  \* where main is: "loop", "remaining", "get_board",
                       \* "batch", "pattern", "place", "exit", "panic"
  specs,               \* the pattern specs in input order
  server,              \* the answers the server gives to POST /api/set
  patterns,            \* the pattern slots of main
  auth,                \* Auth {refresh_token, token}
  next_update,         \* main: next_update
  board_retries,       \* get_board: retries
  fetched,             \* the last answer to GET /api/get?type=board
  board,               \* main: board, the matrix get_board returned
  slot,                \* main: the slot the cascade has reached
  total_pixels_placed, \* main: total_pixels_placed
  wait_duration,       \* main: wait_duration
  max_pixels,          \* process_pattern: max_pixels
  p_index,             \* process_pattern: position of the for loop
  pixels_placed,       \* process_pattern: pixels_placed
  pp_wait_duration,    \* process_pattern: wait_duration
  retries,             \* process_pattern: retries of the current cell
  requested,           \* history: the cells process_pattern has sent a request for
  request,             \* the last POST /api/set sent for the current cell
  response,            \* its answer
  result,              \* what place_pixel returned for it
  successes,           \* history: 2xx answers to POST /api/set in this cycle
  min_signal,          \* history: least cooldown place_pixel returned in this cycle
  throttled,           \* history: slots with a "Too early" result in this cycle
  reconciled,          \* history: slots process_pattern was called for in this cycle
  served,              \* history: slots whose pattern was gone through to its end
  signal_at,           \* history: the instant the least cooldown of this cycle
                       \* was computed from (None: no cooldown, or the fallback)
  available_at         \* history: that instant for the cycle before, until
                       \* the first pattern of the next cycle is processed

vars ==
  << pc, specs, server, patterns, auth, next_update, board_retries, fetched,
     board, slot, total_pixels_placed, wait_duration, max_pixels, p_index,
     pixels_placed, pp_wait_duration, retries, requested, request, response,
     result, successes, min_signal, throttled, reconciled, served, signal_at,
     available_at >>

config == << specs, server, patterns >>
cycle_locals == << slot, total_pixels_placed, wait_duration >>
pattern_locals ==
  << max_pixels, p_index, pixels_placed, pp_wait_duration, retries, requested >>
exchange == << request, response, result >>
history == << successes, min_signal, throttled, reconciled, served, signal_at >>

NoBoard == [y \in Coords |-> [x \in Coords |-> 0]]

Init ==
  /\ pc = "loop"
  /\ \E run \in Runs :
       /\ specs = run.specs
       /\ server = run.server
  /\ patterns = Slots(SortByPriority(specs))
  /\ auth = [refresh_token |-> "r0", token |-> "t0"]
  /\ next_update = now
  /\ board_retries = 0
  /\ fetched = None
  /\ board = NoBoard
  /\ slot = 1
  /\ total_pixels_placed = 0
  /\ wait_duration = None
  /\ max_pixels = 0
  /\ p_index = 1
  /\ pixels_placed = 0
  /\ pp_wait_duration = None
  /\ retries = 0
  /\ requested = <<>>
  /\ request = None
  /\ response = None
  /\ result = None
  /\ successes = 0
  /\ min_signal = None
  /\ throttled = {}
  /\ reconciled = {}
  /\ served = {}
  /\ signal_at = None
  /\ available_at = None

\* ---------------------------------------------------------------- control loop
\* (mutation) the cycle starts one poll early
DueEarly(t_next) == now + POLL_DELAY >= t_next

\* if Utc::now() >= next_update
Due(t_next) == now >= t_next

\* (mutation) the counter and the cooldown are carried over from the cycle
\* before
BatchLocalsKept ==
  /\ slot' = 1
  /\ UNCHANGED << total_pixels_placed, wait_duration >>
  /\ successes' = 0
  /\ min_signal' = None
  /\ throttled' = {}
  /\ reconciled' = {}
  /\ served' = {}
  /\ signal_at' = None

\* the batch starts: let mut total_pixels_placed = 0; let mut wait_duration = None
BatchLocalsReset ==
  /\ slot' = 1
  /\ total_pixels_placed' = 0
  /\ wait_duration' = None
  /\ successes' = 0
  /\ min_signal' = None
  /\ throttled' = {}
  /\ reconciled' = {}
  /\ served' = {}
  /\ signal_at' = None

\* the locals of process_pattern before a call and after its return
PatternLocalsReset ==
  /\ max_pixels' = 0
  /\ p_index' = 1
  /\ pixels_placed' = 0
  /\ pp_wait_duration' = None
  /\ retries' = 0
  /\ requested' = <<>>

ExchangeReset ==
  /\ request' = None
  /\ response' = None
  /\ result' = None

\* loop { if Utc::now() >= next_update { ... get_board() ...
StartCycle ==
  /\ pc = "loop"
  /\ Due(next_update)
  /\ pc' = "get_board"
  /\ board_retries' = 0
  /\ UNCHANGED << config, available_at, auth, next_update, fetched, board,
                  cycle_locals, pattern_locals, exchange, history >>

\* the if is not taken
SkipCycle ==
  /\ pc = "loop"
  /\ ~Due(next_update)
  /\ pc' = "remaining"
  /\ UNCHANGED << config, available_at, auth, next_update, board_retries,
                  fetched, board, cycle_locals, pattern_locals, exchange,
                  history >>

\* the end of the loop body: report the remaining time and sleep 10 s when
\* at least a second remains; otherwise go round at once (a millisecond passes)
Remaining ==
  /\ pc = "remaining"
  /\ next_update' = IF NumSeconds(next_update - now) > 0
                    THEN Elapse(next_update, POLL_DELAY)
                    ELSE Elapse(next_update, 1)
  /\ available_at' = IF NumSeconds(next_update - now) > 0
                     THEN ElapseSome(available_at, POLL_DELAY)
                     ELSE ElapseSome(available_at, 1)
  /\ pc' = "loop"
  /\ UNCHANGED << config, auth, board_retries, fetched, board, cycle_locals,
                  pattern_locals, exchange, history >>

\* ------------------------------------------------------------------ get_board
Transient(resp) ==
  \/ resp.kind = "connection_error"
  \/ resp.kind = "http" /\ resp.status = BAD_GATEWAY

\* (mutation) the cap is tested one retry late
RetriesExhaustedLate(r) == r > MAX_RETRIES

\* if retries >= MAX_RETRIES { return Err(...) }
RetriesExhausted(r) == r >= MAX_RETRIES

\* a connection error or a 502 below the cap: retries += 1, sleep(RETRY_DELAY)
GetBoardRetry ==
  /\ pc = "get_board"
  /\ \E resp \in GetResponses :
       /\ Transient(resp)
       /\ ~RetriesExhausted(board_retries)
       /\ fetched' = Some(resp)
  /\ board_retries' = board_retries + 1
  /\ next_update' = Elapse(next_update, RETRY_DELAY)
  /\ available_at' = ElapseSome(available_at, RETRY_DELAY)
  /\ UNCHANGED << pc, config, auth, board, cycle_locals, pattern_locals,
                  exchange, history >>

\* get_board returns Err and main's ? ends the process: the cap is reached, the
\* status is another non-success, or the payload is no BoardResponse
GetBoardFail ==
  /\ pc = "get_board"
  /\ \E resp \in GetResponses :
       /\ \/ Transient(resp) /\ RetriesExhausted(board_retries)
          \/ ~Transient(resp) /\ resp.kind = "http" /\ ~IsSuccess(resp.status)
          \/ resp.kind = "bad_json"
       /\ fetched' = Some(resp)
  /\ pc' = "exit"
  /\ UNCHANGED << config, available_at, auth, next_update, board_retries,
                  board, cycle_locals, pattern_locals, exchange, history >>

\* get_board returns the transformed matrix, save_board_state writes it, and
\* the batch starts
GetBoardOk ==
  /\ pc = "get_board"
  /\ \E resp \in GetResponses :
       /\ resp.kind = "http" /\ IsSuccess(resp.status)
       /\ fetched' = Some(resp)
       /\ board' = Transform(resp.raw)
  /\ pc' = "batch"
  /\ BatchLocalsReset
  /\ UNCHANGED << config, available_at, auth, next_update, board_retries,
                  pattern_locals, exchange >>

\* save_board_state fails (file I/O) and main's ? ends the process
SaveBoardFail ==
  /\ pc = "get_board"
  /\ \E resp \in GetResponses :
       /\ resp.kind = "http" /\ IsSuccess(resp.status)
       /\ fetched' = Some(resp)
       /\ board' = Transform(resp.raw)
  /\ pc' = "exit"
  /\ UNCHANGED << config, available_at, auth, next_update, board_retries,
                  cycle_locals, pattern_locals, exchange, history >>

\* -------------------------------------------------------------------- cascade
\* (mutation) the first cooldown seen is kept
MergeWaitKeepsCurrent(current, incoming) ==
  IF IsSome(current) THEN current ELSE incoming

\* the smaller of a running cooldown and a new one:
\*   None => Some(duration); Some(current) => if duration < current {Some(duration)}
MergeWait(current, incoming) ==
  IF IsSome(incoming)
  THEN IF IsSome(current)
       THEN IF Unwrap(incoming) < Unwrap(current) THEN incoming ELSE current
       ELSE incoming
  ELSE current

\* defensive1: if let Some(duration) = def1_wait { wait_duration = Some(duration) }
FirstWait(current, incoming) == IF IsSome(incoming) THEN incoming ELSE current

\* the budget handed to process_pattern: MAX_PIXELS_PER_BATCH for defensive1,
\* MAX_PIXELS_PER_BATCH - total_pixels_placed for the later slots
RemainingPixels(k, total) ==
  IF k = 1 THEN MAX_PIXELS_PER_BATCH ELSE MAX_PIXELS_PER_BATCH - total

\* (mutation) a later slot is processed whatever is left of the budget
SelectedIgnoringBudget(k, total) ==
  \/ k = 1
  \/ IsSome(patterns[k])

\* defensive1 is always processed; a later slot when budget is left and the
\* slot holds a pattern
Selected(k, total) ==
  \/ k = 1
  \/ total < MAX_PIXELS_PER_BATCH /\ IsSome(patterns[k])

\* (mutation) build1 is handled before defensive2
NextSlotBuildFirst(k) ==
  IF k = 1 THEN 3 ELSE IF k = 3 THEN 2 ELSE IF k = 2 THEN 4 ELSE k + 1

\* the slot main turns to after slot k
NextSlot(k) == k + 1

\* client.process_pattern(&mut auth, pattern, x, y, &board, remaining_pixels)
CallProcessPattern ==
  /\ pc = "batch"
  /\ slot <= NUM_SLOTS
  /\ Selected(slot, total_pixels_placed)
  /\ pc' = "pattern"
  /\ max_pixels' = RemainingPixels(slot, total_pixels_placed)
  /\ p_index' = 1
  /\ pixels_placed' = 0
  /\ pp_wait_duration' = None
  /\ retries' = 0
  /\ requested' = <<>>
  /\ reconciled' = reconciled \cup {slot}
  /\ available_at' = None
  /\ UNCHANGED << config, auth, next_update, board_retries,
                  fetched, board, cycle_locals, exchange, successes,
                  min_signal, throttled, served, signal_at >>

\* the budget is spent or the slot is empty: on to the next slot
SkipSlot ==
  /\ pc = "batch"
  /\ slot <= NUM_SLOTS
  /\ ~Selected(slot, total_pixels_placed)
  /\ slot' = NextSlot(slot)
  /\ UNCHANGED << pc, config, available_at, auth, next_update, board_retries,
                  fetched, board, total_pixels_placed, wait_duration,
                  pattern_locals, exchange, history >>

\* (mutation) the cooldown is taken without the second added to it
NextUpdateShort(wait) ==
  now + (IF IsSome(wait) THEN (Unwrap(wait) - 1) * 1000
         ELSE BATCH_DELAY_MINUTES * 60 * 1000)

\* next_update = Utc::now() + (the least cooldown, or the default delay)
NextUpdate(wait) ==
  now + (IF IsSome(wait) THEN Unwrap(wait) * 1000
         ELSE BATCH_DELAY_MINUTES * 60 * 1000)

\* the cascade is over: the next cycle is scheduled and the locals of the
\* batch go out of scope
EndCycle ==
  /\ pc = "batch"
  /\ slot > NUM_SLOTS
  /\ next_update' = NextUpdate(wait_duration)
  /\ pc' = "remaining"
  /\ available_at' = signal_at
  /\ BatchLocalsReset
  /\ UNCHANGED << config, auth, board_retries, fetched, board, pattern_locals,
                  exchange >>

\* ------------------------------------------------------------ process_pattern
Current == Unwrap(patterns[slot])
Pixel == Current.pattern[p_index]
TargetX == Current.x + Pixel.x
TargetY == Current.y + Pixel.y

\* (mutation) the budget test off by one
BudgetReachedOffByOne(placed, budget) == placed > budget

\* if pixels_placed >= max_pixels { break; }
BudgetReached(placed, budget) == placed >= budget

\* if target_x >= BOARD_SIZE as i32 || target_y >= BOARD_SIZE as i32
OutOfBounds(tx, ty) == tx >= BOARD_SIZE \/ ty >= BOARD_SIZE

\* board[target_y as usize][target_x as usize] panics when an index is not
\* below the length; a negative i32 cast to usize is at least 2^63
IndexPanics(tx, ty) ==
  \/ ty < 0 \/ ty >= BOARD_SIZE
  \/ tx < 0 \/ tx >= BOARD_SIZE

\* (mutation) every pixel in bounds is sent, whatever the board holds
NeedsCorrectionAlways(b, tx, ty, color) == TRUE

\* board[target_y][target_x] != p.color
NeedsCorrection(b, tx, ty, color) == b[ty][tx] # color

InLoop ==
  /\ pc = "pattern"
  /\ p_index <= Len(Current.pattern)
  /\ ~BudgetReached(pixels_placed, max_pixels)

\* process_pattern returns (the pattern is exhausted or the budget is reached)
\* and main adds its count and merges its cooldown
PatternReturn ==
  /\ pc = "pattern"
  /\ \/ p_index > Len(Current.pattern)
     \/ BudgetReached(pixels_placed, max_pixels)
  /\ total_pixels_placed' = total_pixels_placed + pixels_placed
  /\ wait_duration' = IF slot = 1
                      THEN FirstWait(wait_duration, pp_wait_duration)
                      ELSE MergeWait(wait_duration, pp_wait_duration)
  /\ slot' = NextSlot(slot)
  /\ pc' = "batch"
  /\ served' = IF p_index > Len(Current.pattern)
               THEN served \cup {slot} ELSE served
  /\ PatternLocalsReset
  /\ ExchangeReset
  /\ UNCHANGED << config, available_at, auth, next_update, board_retries,
                  fetched, board, successes, min_signal, throttled,
                  reconciled, signal_at >>

\* the pixel is past the right or the bottom edge: continue
PixelOutOfBounds ==
  /\ InLoop
  /\ OutOfBounds(TargetX, TargetY)
  /\ p_index' = p_index + 1
  /\ ExchangeReset
  /\ UNCHANGED << pc, config, available_at, auth, next_update, board_retries,
                  fetched, board, cycle_locals, max_pixels, pixels_placed,
                  pp_wait_duration, retries, requested, history >>

\* the pixel passes the bounds test and the index panics: the process ends
PixelIndexPanic ==
  /\ InLoop
  /\ ~OutOfBounds(TargetX, TargetY)
  /\ IndexPanics(TargetX, TargetY)
  /\ pc' = "panic"
  /\ UNCHANGED << config, available_at, auth, next_update, board_retries,
                  fetched, board, cycle_locals, pattern_locals, exchange,
                  history >>

\* the board already holds the colour
PixelCorrect ==
  /\ InLoop
  /\ ~OutOfBounds(TargetX, TargetY)
  /\ ~IndexPanics(TargetX, TargetY)
  /\ ~NeedsCorrection(board, TargetX, TargetY, Pixel.color)
  /\ p_index' = p_index + 1
  /\ ExchangeReset
  /\ UNCHANGED << pc, config, available_at, auth, next_update, board_retries,
                  fetched, board, cycle_locals, max_pixels, pixels_placed,
                  pp_wait_duration, retries, requested, history >>

\* (mutation) the counter of the cell before is carried over
RetriesCarried(r) == r

\* let mut retries = 0, declared inside the branch of the mismatched cell:
\* whatever the counter of the cell before was
RetriesAtCell(r) == 0

\* the board holds another colour: let mut retries = 0 and the retry loop
PixelMismatch ==
  /\ InLoop
  /\ ~OutOfBounds(TargetX, TargetY)
  /\ ~IndexPanics(TargetX, TargetY)
  /\ NeedsCorrection(board, TargetX, TargetY, Pixel.color)
  /\ retries' = RetriesAtCell(retries)
  /\ pc' = "place"
  /\ ExchangeReset
  /\ UNCHANGED << config, available_at, auth, next_update, board_retries,
                  fetched, board, cycle_locals, max_pixels, p_index,
                  pixels_placed, pp_wait_duration, requested, history >>

\* ------------------------------------------------------------- the retry loop
\* POST /api/set {x, y, color} with the Cookie header
\* "refresh={auth.refresh_token}; token={auth.token}"
Request(a, tx, ty, color) ==
  [x |-> tx, y |-> ty, color |-> color,
   refresh |-> a.refresh_token, token |-> a.token]

\* (mutation) a refresh spends a retry
RetriesAfterRefreshCounted(r) == r + 1

\* the retry counter after a needs_refresh result: continue, nothing counted
RetriesAfterRefresh(r) == r

\* (mutation) a failed attempt leaves the retry counter alone
RetriesAfterErrorUncounted(r) == r

\* (mutation) an error spends two retries
RetriesAfterErrorTwice(r) == r + 2

\* the retry counter after an Err: retries += 1
RetriesAfterError(r) == r + 1

\* (mutation) a placement that went through is not counted
PlacedAfterOkUncounted(placed) == placed

\* pixels_placed after Ok((false, _)): pixels_placed += 1
PlacedAfterOk(placed) == placed + 1

\* the least of the cooldowns seen (history)
LeastOf(seen, signal) ==
  IF ~IsSome(signal) THEN seen
  ELSE IF ~IsSome(seen) THEN signal
  ELSE IF Unwrap(signal) < Unwrap(seen) THEN signal ELSE seen

\* one place_pixel call of the while loop: the request goes out with the
\* current credentials and resp comes back
Attempt(resp) ==
  /\ pc = "place"
  /\ retries < max_retries
  /\ request' = Some(Request(auth, TargetX, TargetY, Pixel.color))
  /\ requested' = IF request = None
                  THEN Append(requested, Px(TargetX, TargetY, Pixel.color))
                  ELSE requested
  /\ response' = Some(resp)
  /\ result' = Some(place_pixel(auth, resp, now).result)
  /\ auth' = place_pixel(auth, resp, now).auth

\* Ok((true, _)): "Retrying with new tokens", continue
PlaceRefresh ==
  \E resp \in server :
    /\ Attempt(resp)
    /\ place_pixel(auth, resp, now).result.ok
    /\ place_pixel(auth, resp, now).result.needs_refresh
    /\ retries' = RetriesAfterRefresh(retries)
    /\ UNCHANGED << pc, config, available_at, next_update, board_retries,
                    fetched, board, cycle_locals, max_pixels, p_index,
                    pixels_placed, pp_wait_duration, history >>

\* (mutation) a placement that went through is written to the snapshot
BoardAfterPlacementWritten(b, x, y, color) == [b EXCEPT ![y][x] = color]

\* the snapshot after a placement: process_pattern holds board: &Vec<Vec<u8>>,
\* a shared reference, and writes nothing to it
BoardAfterPlacement(b, x, y, color) == b

\* the later of two optional instants
LatestOf(a, b) ==
  IF ~IsSome(a) THEN b
  ELSE IF ~IsSome(b) THEN a
  ELSE IF Unwrap(b) > Unwrap(a) THEN b ELSE a

\* Ok((false, new_wait_duration)): the cooldown is merged, the pixel is
\* counted, break
PlaceCounted ==
  \E resp \in server :
    LET out == place_pixel(auth, resp, now).result
    IN /\ Attempt(resp)
       /\ out.ok
       /\ ~out.needs_refresh
       /\ pp_wait_duration' = MergeWait(pp_wait_duration, out.wait)
       /\ pixels_placed' = PlacedAfterOk(pixels_placed)
       /\ p_index' = p_index + 1
       /\ pc' = "pattern"
       /\ successes' = IF IsSuccess(resp.status) THEN successes + 1 ELSE successes
       /\ min_signal' = LeastOf(min_signal, out.wait)
       /\ throttled' = IF IsSuccess(resp.status) THEN throttled
                       ELSE throttled \cup {slot}
       /\ signal_at' = IF LeastOf(min_signal, out.wait) # min_signal
                       THEN AvailableTime(resp, now)
                       ELSE IF out.wait = min_signal
                       THEN LatestOf(signal_at, AvailableTime(resp, now))
                       ELSE signal_at
       /\ board' = BoardAfterPlacement(board, TargetX, TargetY, Pixel.color)
       /\ UNCHANGED << config, available_at, next_update, board_retries,
                       fetched, cycle_locals, max_pixels, retries,
                       reconciled, served >>

\* Err: retries += 1; at max_retries the cell is given up (break), otherwise
\* sleep 500 ms and try again
PlaceFailed ==
  \E resp \in server :
    /\ Attempt(resp)
    /\ ~place_pixel(auth, resp, now).result.ok
    /\ retries' = RetriesAfterError(retries)
    /\ IF retries' >= max_retries
       THEN /\ p_index' = p_index + 1
            /\ pc' = "pattern"
            /\ UNCHANGED << next_update, signal_at, available_at >>
       ELSE /\ p_index' = p_index
            /\ pc' = pc
            /\ next_update' = Elapse(next_update, ATTEMPT_DELAY)
            /\ signal_at' = ElapseSome(signal_at, ATTEMPT_DELAY)
            /\ available_at' = ElapseSome(available_at, ATTEMPT_DELAY)
    /\ UNCHANGED << config, board_retries, fetched, board, cycle_locals,
                    max_pixels, pixels_placed, pp_wait_duration, successes,
                    min_signal, throttled, reconciled, served >>

\* ------------------------------------------------------------ specification
Next ==
  \/ StartCycle
  \/ SkipCycle
  \/ Remaining
  \/ GetBoardRetry
  \/ GetBoardFail
  \/ GetBoardOk
  \/ SaveBoardFail
  \/ CallProcessPattern
  \/ SkipSlot
  \/ EndCycle
  \/ PatternReturn
  \/ PixelOutOfBounds
  \/ PixelIndexPanic
  \/ PixelCorrect
  \/ PixelMismatch
  \/ PlaceRefresh
  \/ PlaceCounted
  \/ PlaceFailed

Spec == Init /\ [][Next]_vars

\* ===================================================================== claims
InCycle == pc \in {"batch", "pattern", "place"}
CascadeOver == pc = "batch" /\ slot > NUM_SLOTS
Counted == total_pixels_placed + pixels_placed

IsHttp(r) == IsSome(r) /\ ~Unwrap(r).transport_error
IsExpiryAnswer(r) == IsHttp(r) /\ Unwrap(r).status = STATUS_EXPIRED
IsSuccessAnswer(r) == IsHttp(r) /\ IsSuccess(Unwrap(r).status)
AllReadable(cookies) == \A i \in DOMAIN cookies : cookies[i].readable
Delivers(cookies, name) ==
  \E i \in DOMAIN cookies : cookies[i].readable /\ cookies[i].name = name
Delivered(cookies, name) ==
  cookies[CHOOSE i \in DOMAIN cookies :
            cookies[i].readable /\ cookies[i].name = name].value

\* C1: in every cycle the placements counted never exceed
\* MAX_PIXELS_PER_BATCH, and a process_pattern call never counts more than
\* the max_pixels it was handed.
C1_BudgetConserved ==
  /\ total_pixels_placed <= MAX_PIXELS_PER_BATCH
  /\ Counted <= MAX_PIXELS_PER_BATCH
  /\ pc \in {"pattern", "place"} => pixels_placed <= max_pixels

\* C1 witness: a later slot was handed less than the whole budget, has used
\* all of it and still has pixels left.
C1_Witness ==
  /\ pc = "pattern"
  /\ slot > 1
  /\ max_pixels < MAX_PIXELS_PER_BATCH
  /\ pixels_placed = max_pixels
  /\ p_index <= Len(Current.pattern)

\* C2 (as claimed): the placements counted are exactly the attempts answered
\* with a 2xx status; a "Too early" answer counts nothing.
C2_OnlySuccessesCounted == Counted = successes

\* C3 (as claimed): a 426 answer never changes the retry counter and never
\* ends the work on the cell.
C3_ExpiryNeverCounts ==
  [][ (pc = "place" /\ IsExpiryAnswer(response'))
        => /\ retries' = retries
           /\ pc' = "place"
           /\ p_index' = p_index
           /\ pixels_placed' = pixels_placed ]_vars

ReadableExpiry(r) == IsExpiryAnswer(r) /\ AllReadable(Unwrap(r).cookies)

\* C3 (amended): a 426 answer whose set-cookie headers are all readable text
\* leaves the retry counter, the cell and the count as they were, and a 2xx
\* answer that follows it counts the cell once and moves on to the next pixel
\* with the retry counter still untouched.
C3_ReadableExpiryNeverCounts ==
  [][ /\ (pc = "place" /\ ReadableExpiry(response'))
        => /\ retries' = retries
           /\ pc' = "place"
           /\ p_index' = p_index
           /\ pixels_placed' = pixels_placed
           /\ total_pixels_placed' = total_pixels_placed
      /\ (ReadableExpiry(response) /\ IsSuccessAnswer(response'))
        => /\ pixels_placed' = pixels_placed + 1
           /\ p_index' = p_index + 1
           /\ retries' = retries ]_vars

\* C3 witness: the cell had failed twice when a readable 426 answer came, and
\* it is still being placed.
C3_Witness ==
  /\ pc = "place"
  /\ ReadableExpiry(response)
  /\ retries = max_retries - 1

DeliversPair(r) ==
  /\ IsExpiryAnswer(r)
  /\ Delivers(Unwrap(r).cookies, "token")
  /\ Delivers(Unwrap(r).cookies, "refresh")

RetriedWithNewCredentials ==
  /\ pc = "place"
  /\ IsSome(request')
  /\ Unwrap(request').x = Unwrap(request).x
  /\ Unwrap(request').y = Unwrap(request).y
  /\ Unwrap(request').color = Unwrap(request).color
  /\ Unwrap(request').token = Delivered(Unwrap(response).cookies, "token")
  /\ Unwrap(request').refresh = Delivered(Unwrap(response).cookies, "refresh")

OutsideBoard(tx, ty) ==
  tx < 0 \/ tx >= BOARD_SIZE \/ ty < 0 \/ ty >= BOARD_SIZE

\* C5 (as claimed): a pixel whose absolute coordinate is outside [0, N) on
\* either axis, negative included, is skipped: nothing is sent or counted, no
\* retry is spent, and the loop goes on with the next pixel.
C5_OutsideSkipped ==
  [][ (InLoop /\ OutsideBoard(TargetX, TargetY))
        => /\ pc' = "pattern"
           /\ p_index' = p_index + 1
           /\ request' = None
           /\ UNCHANGED << pixels_placed, total_pixels_placed, max_pixels,
                           retries >> ]_vars

\* the last answer made place_pixel call calculate_wait_interval
WaitComputed ==
  /\ IsHttp(response)
  /\ Unwrap(response).status # STATUS_EXPIRED
  /\ ParsesAsTimerResponse(Unwrap(response).body)
  /\ IF IsSuccess(Unwrap(response).status)
     THEN Unwrap(Unwrap(response).body.timers) # <<>>
     ELSE Unwrap(response).body.message = Some("Too early")
LastTimers == Unwrap(Unwrap(response).body.timers)
AheadOfNow(timers) ==
  { Unwrap(timers[i]) : i \in { k \in DOMAIN timers :
                                  IsSome(timers[k]) /\ Unwrap(timers[k]) > now } }
Earliest(instants) == CHOOSE t \in instants : \A u \in instants : t <= u
ReturnedWait == Unwrap(Unwrap(result).wait)

\* C6 (as claimed): when some parseable timer is ahead of now, the wait is the
\* whole seconds from now to the earliest such timer, plus one; timers behind
\* now and unparseable entries do not matter.
C6_WaitFromEarliestAhead ==
  (WaitComputed /\ AheadOfNow(LastTimers) # {})
    => ReturnedWait = NumSeconds(Earliest(AheadOfNow(LastTimers)) - now) + 1

\* C7 (as claimed): the wait is the 31-minute fallback exactly when no
\* parseable timer is ahead of now, and it is never negative.
C7_FallbackExactly ==
  WaitComputed
    => /\ (ReturnedWait = FallbackWait) <=> (AheadOfNow(LastTimers) = {})
       /\ ReturnedWait >= 0

\* C8: the cooldown of the cycle is the least of the cooldowns place_pixel
\* returned in it, and None when it returned none.
C8_CooldownIsMinimum ==
  /\ InCycle => LeastOf(wait_duration, pp_wait_duration) = min_signal
  /\ CascadeOver => wait_duration = min_signal

\* C8 witness: a later pattern has seen a tighter cooldown than the patterns
\* before it.
C8_Witness ==
  /\ pc = "pattern"
  /\ slot > 1
  /\ IsSome(wait_duration)
  /\ IsSome(pp_wait_duration)
  /\ Unwrap(pp_wait_duration) < Unwrap(wait_duration)

Configured == { k \in 1 .. NUM_SLOTS : IsSome(patterns[k]) }
InputIndex(spec) == CHOOSE k \in DOMAIN specs : specs[k] = spec

C10_ThrottlingDoesNotHalt ==
  CascadeOver
    => \A i \in throttled : \A j \in Configured :
         j > i => (j \in reconciled \/ successes >= MAX_PIXELS_PER_BATCH)

BudgetExhausted == InCycle /\ Counted >= MAX_PIXELS_PER_BATCH

\* C11: once the placements counted in the cycle have reached
\* MAX_PIXELS_PER_BATCH, no request is sent and no further pattern is taken up
\* until the cycle is over.
C11_NoRequestPastBudget ==
  [][ BudgetExhausted
        => /\ pc # "place"
           /\ pc' # "place"
           /\ request' \in {request, None}
           /\ response' \in {response, None}
           /\ requested' \in {requested, <<>>}
           /\ reconciled' \subseteq reconciled ]_vars

\* C11 witness: the budget is spent, the pattern before was not gone through
\* to its end and the slot reached holds a pattern.
C11_Witness ==
  /\ pc = "batch"
  /\ total_pixels_placed = MAX_PIXELS_PER_BATCH
  /\ slot > 1
  /\ slot <= NUM_SLOTS
  /\ IsSome(patterns[slot])
  /\ (slot - 1) \notin served

\* the answer is a failure: no answer at all, or a non-success status that is
\* neither 426 nor a "Too early" message
FailedAnswer(r) ==
  /\ IsSome(r)
  /\ \/ Unwrap(r).transport_error
     \/ /\ ~IsSuccess(Unwrap(r).status)
        /\ Unwrap(r).status # STATUS_EXPIRED
        /\ Unwrap(r).body.message # Some("Too early")

\* C12: a failed attempt spends one of the three retries of the cell and counts
\* nothing; the third failure gives the cell up and the loop goes on with the
\* next pixel, so a cell that only fails is sent three times at most.
C12_FailedCellAbandoned ==
  [][ /\ pc = "place" => (retries < max_retries /\ retries' <= max_retries)
      /\ (pc = "place" /\ FailedAnswer(response'))
           => /\ retries' = retries + 1
              /\ pixels_placed' = pixels_placed
              /\ total_pixels_placed' = total_pixels_placed
              /\ successes' = successes
              /\ IF retries' = max_retries
                 THEN pc' = "pattern" /\ p_index' = p_index + 1
                 ELSE pc' = "place" /\ p_index' = p_index ]_vars

\* C12 witness: the first cell of a pattern was given up after three failures
\* with nothing counted.
C12_Witness ==
  /\ pc = "pattern"
  /\ p_index = 2
  /\ retries = max_retries
  /\ FailedAnswer(response)
  /\ pixels_placed = 0
  /\ Len(requested) = 1

\* a non-success answer whose payload is JSON with the message "Too early"
TooEarlyAnswer(r) ==
  /\ IsHttp(r)
  /\ ~IsSuccess(Unwrap(r).status)
  /\ Unwrap(r).status # STATUS_EXPIRED
  /\ Unwrap(r).body.json
  /\ Unwrap(r).body.message = Some("Too early")

\* C13 (as claimed): a "Too early" answer, with or without a timers list, is a
\* normal result that carries a cooldown and spends no retry; every other
\* non-success answer that is not a 426 is an error.
C13_TooEarlyIsNeverAnError ==
  [][ /\ (pc = "place" /\ TooEarlyAnswer(response'))
           => /\ Unwrap(result').ok
              /\ ~Unwrap(result').needs_refresh
              /\ IsSome(Unwrap(result').wait)
              /\ retries' = retries
      /\ (pc = "place" /\ FailedAnswer(response'))
           => ~Unwrap(result').ok ]_vars

\* the payload of the answer holds a timers list that is not empty
CarriesTimers(r) ==
  /\ Unwrap(r).body.json
  /\ IsSome(Unwrap(r).body.timers)
  /\ Unwrap(Unwrap(r).body.timers) # <<>>

\* C14: a 2xx answer counts the cell once and ends the work on it, with or
\* without timers; with a timers list that is not empty place_pixel returns a
\* cooldown and the pattern's cooldown becomes the smaller of the two, with an
\* empty or absent list it returns none and the pattern's cooldown stays.
C14_SuccessCountsOnce ==
  [][ (pc = "place" /\ IsSuccessAnswer(response'))
        => /\ pixels_placed' = pixels_placed + 1
           /\ successes' = successes + 1
           /\ p_index' = p_index + 1
           /\ pc' = "pattern"
           /\ IF CarriesTimers(response')
              THEN /\ IsSome(Unwrap(result').wait)
                   /\ IsSome(pp_wait_duration')
                   /\ Unwrap(pp_wait_duration') <= Unwrap(Unwrap(result').wait)
                   /\ pp_wait_duration' = LeastOf(pp_wait_duration,
                                                  Unwrap(result').wait)
              ELSE /\ Unwrap(result').wait = None
                   /\ pp_wait_duration' = pp_wait_duration ]_vars

\* C14 witness: two 2xx answers were counted, one with a timer 1.5 s ahead
\* (a cooldown of 2 s, which the pattern holds) and, last, one without timers.
C14_Witness ==
  /\ pc = "pattern"
  /\ pixels_placed = 2
  /\ successes = 2
  /\ IsSuccessAnswer(response)
  /\ ~CarriesTimers(response)
  /\ pp_wait_duration = Some(2)

\* nothing is sent and nothing of the run changes but the clock
OnlyPolls ==
  UNCHANGED << config, auth, board_retries, fetched, board, cycle_locals,
               pattern_locals, exchange, history >>

\* C15: next_update starts at now; a cycle starts only at now >= next_update;
\* while now < next_update the loop goes round without a request; the end of
\* a cycle sets next_update to now plus the least cooldown of the cycle, or
\* plus BATCH_DELAY_MINUTES when there was none.
C15_CycleOnlyWhenDue ==
  /\ next_update = now
  /\ [][ /\ (pc = "loop" /\ pc' = "get_board") => now >= next_update
         /\ (pc = "loop" /\ now < next_update)
              => (pc' = "remaining" /\ next_update' = next_update /\ OnlyPolls)
         /\ pc = "remaining" => (pc' = "loop" /\ OnlyPolls)
         /\ (pc = "batch" /\ pc' = "remaining")
              => next_update' =
                   now + (IF IsSome(min_signal)
                          THEN Unwrap(min_signal) * 1000
                          ELSE BATCH_DELAY_MINUTES * 60 * 1000) ]_vars

\* C15 witness: a cycle has ended with a least cooldown of 2 s and the next
\* one is due in 2 s.
C15_Witness ==
  /\ pc = "remaining"
  /\ next_update = now + 2000
  /\ IsSome(fetched)

\* the answer to the board request is a connection error or a 502
TransientAnswer(r) ==
  /\ IsSome(r)
  /\ \/ Unwrap(r).kind = "connection_error"
     \/ Unwrap(r).kind = "http" /\ Unwrap(r).status = 502

\* C16: each get_board call starts with retries = 0; a connection error or a
\* 502 below MAX_RETRIES adds one to the same counter and waits RETRY_DELAY
\* before the next request; at MAX_RETRIES it makes get_board fail, and the
\* process has ended: nothing happens after.
C16_FetchRetriesBounded ==
  [][ /\ (pc = "loop" /\ pc' = "get_board") => board_retries' = 0
      /\ (pc = "get_board" /\ TransientAnswer(fetched'))
           => IF board_retries < MAX_RETRIES
              THEN /\ pc' = "get_board"
                   /\ board_retries' = board_retries + 1
                   /\ next_update' = Elapse(next_update, RETRY_DELAY)
              ELSE /\ pc' = "exit"
                   /\ board_retries' = board_retries
      /\ pc = "get_board" => board_retries' <= MAX_RETRIES
      /\ pc # "exit" ]_vars

\* C16 witness: the fetch has failed on the answer that followed its tenth
\* retry.
C16_Witness ==
  /\ pc = "exit"
  /\ board_retries = MAX_RETRIES
  /\ TransientAnswer(fetched)

\* the answer to the board request has a 5xx status
ServerErrorAnswer(r) ==
  /\ IsSome(r)
  /\ Unwrap(r).kind = "http"
  /\ Unwrap(r).status >= 500
  /\ Unwrap(r).status <= 599

\* C17 (as claimed): every 5xx answer to the board request is retried like a
\* 502: below MAX_RETRIES the fetch goes on with one more retry counted.
C17_ServerErrorsRetried ==
  [][ (pc = "get_board" /\ ServerErrorAnswer(fetched')
         /\ board_retries < MAX_RETRIES)
        => /\ pc' = "get_board"
           /\ board_retries' = board_retries + 1 ]_vars

\* C18 (as claimed): whatever the answers to the placement requests,
\* process_pattern comes back to main, and the process ends only out of the
\* board fetch or the writing of the board file.
C18_OnlyFetchAborts ==
  [][ /\ pc = "place" => pc' \in {"place", "pattern"}
      /\ pc = "pattern" => pc' \in {"pattern", "place", "batch"}
      /\ pc' \in {"exit", "panic"} => pc = "get_board" ]_vars

\* the board after the corrections were applied to it, in the order given
RECURSIVE Corrected(_, _)
Corrected(b, corrections) ==
  IF corrections = <<>> THEN b
  ELSE LET c == Head(corrections)
       IN Corrected([b EXCEPT ![c.y][c.x] = c.color], Tail(corrections))

\* the pixels of the pattern in the slot that are in bounds and differ from b
CellsToCorrect(b, spec) ==
  { i \in DOMAIN spec.pattern :
      LET tx == spec.x + spec.pattern[i].x
          ty == spec.y + spec.pattern[i].y
      IN /\ ~OutsideBoard(tx, ty)
         /\ b[ty][tx] # spec.pattern[i].color }

\* the whole pattern of the slot has been gone through
PassComplete == pc = "pattern" /\ p_index > Len(Current.pattern)

OnlyMismatchesRequested ==
  /\ pc = "place"
       => /\ ~OutsideBoard(TargetX, TargetY)
          /\ board[TargetY][TargetX] # Pixel.color
  /\ pc \in {"pattern", "place"}
       => \A i \in DOMAIN requested :
            /\ ~OutsideBoard(requested[i].x, requested[i].y)
            /\ board[requested[i].y][requested[i].x] # requested[i].color
  /\ PassComplete
       => Len(requested) = Cardinality(CellsToCorrect(board, Current))

\* C19 (as claimed): a request is sent only for a pixel in bounds whose colour
\* on the snapshot differs, and once a pattern was gone through, the snapshot
\* with every requested correction applied leaves no cell of the pattern to
\* correct.
C19_ReconcileIdempotent ==
  /\ OnlyMismatchesRequested
  /\ PassComplete
       => CellsToCorrect(Corrected(board, requested), Current) = {}

\* no two pixels of the pattern give one cell two colours
OneColourPerCell(spec) ==
  \A i, j \in DOMAIN spec.pattern :
    (spec.pattern[i].x = spec.pattern[j].x /\ spec.pattern[i].y = spec.pattern[j].y)
      => spec.pattern[i].color = spec.pattern[j].color

\* C19 (amended): the same, the second pass being empty for a pattern that
\* gives each cell one colour.
C19_ReconcileIdempotentOneColour ==
  /\ OnlyMismatchesRequested
  /\ (PassComplete /\ OneColourPerCell(Current))
       => CellsToCorrect(Corrected(board, requested), Current) = {}

\* C19 witness: of the two pixels of the pattern of priority 1, the one the
\* board already holds was passed over and the other was requested.
C19_Witness ==
  /\ specs = InputPriority
  /\ slot = 1
  /\ PassComplete
  /\ board[0][1] = BOARD_SIZE
  /\ requested = << Px(0, 1, 255) >>

\* the last answer to the board request was a 2xx with a matrix
BoardAnswer(r) ==
  /\ IsSome(r)
  /\ Unwrap(r).kind = "http"
  /\ IsSuccess(Unwrap(r).status)
RawMatrix == Unwrap(fetched).raw

\* C20: the board main holds is the raw matrix rotated a quarter turn
\* clockwise and then mirrored left to right, index by index:
\* rotated[x][N-1-y] = raw[y][x], board[y][N-1-x] = rotated[y][x], hence
\* board[r][c] = raw[c][r]; the transform applied to the board gives the raw
\* matrix back.
C20_TransformPinned ==
  BoardAnswer(fetched)
    => /\ \A x, y \in Coords :
            /\ Rotate(RawMatrix)[x][BOARD_SIZE - 1 - y] = RawMatrix[y][x]
            /\ board[y][BOARD_SIZE - 1 - x] = Rotate(RawMatrix)[y][x]
       /\ \A r, c \in Coords : board[r][c] = RawMatrix[c][r]
       /\ Transform(board) = RawMatrix
       /\ Transform(Transform(RawMatrix)) = RawMatrix

\* C20 witness: the raw matrix with a different value in each cell was
\* fetched; its top right cell is now at the bottom left.
C20_Witness ==
  /\ pc = "batch"
  /\ BoardAnswer(fetched)
  /\ RawMatrix[0][BOARD_SIZE - 1] = BOARD_SIZE - 1
  /\ board[BOARD_SIZE - 1][0] = BOARD_SIZE - 1
  /\ board[0][BOARD_SIZE - 1] # BOARD_SIZE - 1

\* C21: the credentials change only in the step that handles a 426 answer;
\* every other answer to a placement, the board fetch, the cascade and the
\* start of a cycle leave both halves as they are, and every request carries
\* the pair the one holder has when it is sent.
C21_CredentialsOnlyOnExpiry ==
  [][ /\ auth' # auth => (pc = "place" /\ IsExpiryAnswer(response'))
      /\ (pc = "place" /\ ~IsExpiryAnswer(response')) => auth' = auth
      /\ pc = "place"
           => /\ Unwrap(request').token = auth.token
              /\ Unwrap(request').refresh = auth.refresh_token ]_vars

\* C21 witness: a new cycle is fetching the board with the pair an earlier
\* 426 answer delivered.
C21_Witness ==
  /\ pc = "get_board"
  /\ auth = [refresh_token |-> "r1", token |-> "t1"]

\* C22 (as claimed): the loop has no end but a failed board fetch or a failed
\* write of the board file; while the next cycle is not due every round of
\* the loop brings it nearer, and when it is due the cycle starts.
C22_LoopNeverStops ==
  [][ /\ pc' \in {"exit", "panic"} => pc = "get_board"
      /\ pc = "loop"
           => /\ pc' \in {"get_board", "remaining"}
              /\ pc' = "get_board" <=> now >= next_update
      /\ (pc = "remaining" /\ next_update > now)
           => (pc' = "loop" /\ next_update' < next_update) ]_vars

\* C23: the retry counter is 0 when the work on a mismatched cell begins, in
\* every cycle and whatever the cells before it spent, so each cell has its
\* three attempts.
C23_RetriesPerCell ==
  [][ /\ (pc = "pattern" /\ pc' = "place")
           => /\ retries' = 0
              /\ request' = None
      /\ (pc = "place" /\ request = None)
           => /\ retries = 0
              /\ max_retries - retries = 3 ]_vars

\* C23 witness: the first cell of the pattern was given up after three
\* failures and the work on the second begins with a counter of 0.
C23_Witness ==
  /\ pc = "place"
  /\ p_index > 1
  /\ Len(requested) = 1
  /\ pixels_placed = 0
  /\ request = None
  /\ retries = 0

\* the instants the entries of the list parse to
Parsed(timers) ==
  { Unwrap(timers[i]) : i \in { k \in DOMAIN timers : IsSome(timers[k]) } }

\* the wait comes from a timer: the earliest instant of the list is ahead of now
FromTimer ==
  /\ WaitComputed
  /\ Parsed(LastTimers) # {}
  /\ Earliest(Parsed(LastTimers)) > now

\* C24: a wait that comes from a timer ahead of now is the whole seconds that
\* remain, plus one: at least 1 s and longer than the time that remains.
C24_WholeSecondsPlusOne ==
  FromTimer
    => LET remaining == Earliest(Parsed(LastTimers)) - now
       IN /\ ReturnedWait = (remaining \div 1000) + 1
          /\ ReturnedWait >= 1
          /\ ReturnedWait * 1000 > remaining

\* C24 witness: with timers 3.2 s and 1.5 s ahead behind an entry that does
\* not parse, the wait is 2 s.
C24_Witness ==
  /\ FromTimer
  /\ LastTimers = << None, Some(3200), Some(1500) >>
  /\ ReturnedWait = 2

\* C25: when the least cooldown of a cycle was computed from the instant T
\* (signal_at, aged by the time gone by since), the end of the cycle schedules
\* the next one strictly after T, and the next cycle starts only once T is
\* reached.
C25_NeverBeforeTimestamp ==
  [][ /\ (pc = "batch" /\ pc' = "remaining" /\ IsSome(signal_at))
           => /\ available_at' = signal_at
              /\ next_update' > Unwrap(signal_at)
      /\ (pc = "remaining" /\ IsSome(available_at))
           => next_update >= Unwrap(available_at)
      /\ (pc = "loop" /\ pc' = "get_board" /\ IsSome(available_at))
           => Unwrap(available_at) <= now ]_vars

\* a cycle ended 500 ms after a "Too early" answer named an instant 3200 ms
\* ahead: that instant is 2700 ms ahead and the next cycle 4000 ms ahead
C25_Witness ==
  /\ pc = "remaining"
  /\ available_at = Some(2700)
  /\ next_update = 4000

\* a cycle is about to start and the instant of the cycle before is reached
C25_NextCycleStarts ==
  pc = "loop" /\ available_at = Some(now) /\ Due(next_update)

\* the step is an attempt answered by a 426 that place_pixel turns into
\* Ok((true, None))
ExpiryStep ==
  /\ pc = "place"
  /\ IsExpiryAnswer(response')
  /\ Unwrap(result').needs_refresh

\* how far the placement phase has come: the slot of the cascade, then the
\* pixel of the pattern, then the attempts spent on the cell
RankPerSlot == 8 * (LongLen + 2)
Rank ==
  slot * RankPerSlot
    + (IF pc = "batch" THEN 0
       ELSE p_index * 8 + (IF pc = "place" THEN 1 + retries ELSE 0))
RankLimit == (NUM_SLOTS + 2) * RankPerSlot

\* C26: a request is sent only with fewer than 3 attempts spent on the cell;
\* an answer other than an expiry spends an attempt or ends the cell, so a cell
\* gets at most 3 requests besides those answered by an expiry; and every step
\* of the placement phase that is not an expiry answer brings the phase nearer
\* to its end, which a bounded rank measures.
C26_PlacementTerminates ==
  [][ /\ pc = "place" => retries < max_retries
      /\ (pc = "place" /\ ~ExpiryStep)
           => \/ pc' = "place" /\ p_index' = p_index
                 /\ retries' = retries + 1 /\ retries' < max_retries
              \/ pc' = "pattern" /\ p_index' = p_index + 1
      /\ ExpiryStep
           => pc' = "place" /\ p_index' = p_index /\ retries' = retries
      /\ (InCycle /\ ~ExpiryStep /\ pc' \in {"batch", "pattern", "place"})
           => Rank' > Rank
      /\ InCycle => Rank <= RankLimit ]_vars

\* a cell whose first request failed and whose second one, sent with the old
\* credentials, was answered by an expiry that delivered new ones: one attempt
\* is spent and a third request follows
C26_Witness ==
  /\ pc = "place"
  /\ retries = 1
  /\ IsExpiryAnswer(response)
  /\ auth.token = "t1"
  /\ Unwrap(request).token = "t0"

\* the credentials after a 426 answer with the headers cookies: each half is
\* the one delivered, or the one held before
HalvesDelivered(before, after, cookies) ==
  /\ after.token = IF Delivers(cookies, "token")
                   THEN Delivered(cookies, "token") ELSE before.token
  /\ after.refresh_token = IF Delivers(cookies, "refresh")
                           THEN Delivered(cookies, "refresh")
                           ELSE before.refresh_token

\* the answer is reported as needs-refresh and the cell stays the current one,
\* with the attempts spent on it unchanged
StillNeedsRefresh ==
  /\ Unwrap(result').ok
  /\ Unwrap(result').needs_refresh
  /\ pc' = "place"
  /\ p_index' = p_index
  /\ retries' = retries

\* the request sent after a needs-refresh result is for the cell of the one
\* before and carries the credentials held now
SameCellSentAgain ==
  (pc = "place" /\ IsSome(result) /\ Unwrap(result).ok
     /\ Unwrap(result).needs_refresh)
    => /\ Unwrap(request').x = Unwrap(request).x
       /\ Unwrap(request').y = Unwrap(request).y
       /\ Unwrap(request').color = Unwrap(request).color
       /\ Unwrap(request').token = auth.token
       /\ Unwrap(request').refresh = auth.refresh_token

\* C27 (amended): a 426 answer whose set-cookie headers are all readable text
\* overwrites only the halves it delivers (just token=, just refresh=, or
\* neither), is reported as needs-refresh, and the same cell is sent again.
C27_OnlyDeliveredHalvesReadable ==
  [][ /\ (pc = "place" /\ ReadableExpiry(response'))
           => /\ HalvesDelivered(auth, auth', Unwrap(response').cookies)
              /\ StillNeedsRefresh
      /\ SameCellSentAgain ]_vars

\* a 426 answer with just token= was handled: the token is the new one, the
\* refresh token the one of the command line
C27_Witness ==
  /\ pc = "place"
  /\ IsExpiryAnswer(response)
  /\ Unwrap(response).cookies = << Cookie("token", "t1") >>
  /\ Unwrap(result).needs_refresh
  /\ auth = [refresh_token |-> "r0", token |-> "t1"]

\* C27 as stated: every 426 answer that does not deliver both halves
\* overwrites only the delivered ones, is reported as needs-refresh, and the
\* same cell is sent again.
C27_OnlyDeliveredHalves ==
  [][ /\ (pc = "place" /\ IsExpiryAnswer(response')
            /\ ~DeliversPair(response'))
           => /\ HalvesDelivered(auth, auth', Unwrap(response').cookies)
              /\ StillNeedsRefresh
      /\ SameCellSentAgain ]_vars

\* the pixel process_pattern is at lies on the board
PixelOnBoard ==
  /\ p_index <= Len(Current.pattern)
  /\ TargetX >= 0 /\ TargetX < BOARD_SIZE
  /\ TargetY >= 0 /\ TargetY < BOARD_SIZE

\* C28: no step of a cycle changes the snapshot, a counted placement included;
\* within the budget, a request is sent for a pixel on the board exactly when
\* the snapshot differs from its colour; and once a pattern was gone through,
\* one cell was requested for each of its pixels that differs from the
\* snapshot, a pixel listed twice being requested twice.
C28_SnapshotImmutable ==
  [][ /\ InCycle => board' = board
      /\ (pc = "pattern" /\ PixelOnBoard
            /\ ~BudgetReached(pixels_placed, max_pixels))
           => (pc' = "place" <=> board[TargetY][TargetX] # Pixel.color)
      /\ PassComplete
           => Len(requested) = Cardinality(CellsToCorrect(board, Current)) ]_vars

\* the long pattern names one cell several times with one colour: two requests
\* for it were answered by a 2xx and counted, and the snapshot still differs
C28_Witness ==
  /\ specs = InputBudget
  /\ pc = "pattern"
  /\ Len(requested) = 2
  /\ requested[1] = requested[2]
  /\ pixels_placed = 2
  /\ successes = 3
  /\ board[requested[1].y][requested[1].x] # requested[1].color

\* the second pattern is at the cell (1, 0) the first one was placed on in the
\* same cycle, and a request for it is about to be sent
C28_OverlappingPatterns ==
  /\ specs = InputOverlap
  /\ pc = "place"
  /\ slot = 2
  /\ request = None
  /\ successes = 3
  /\ TargetX = 1 /\ TargetY = 0 /\ Pixel.color = 255

\* C29: every cycle starts with total_pixels_placed = 0 and wait_duration =
\* None; in a cycle the placements counted are those of this cycle (the 2xx
\* answers, when no "Too early" answer was counted) and the cooldown held is
\* the least one returned in this cycle; and the next cycle is scheduled from
\* that cooldown alone.
C29_PerCycleAccumulators ==
  [][ /\ (pc = "get_board" /\ pc' = "batch")
           => /\ total_pixels_placed' = 0
              /\ wait_duration' = None
      /\ (pc = "batch" /\ slot = 1 /\ pc' = "pattern")
           => /\ total_pixels_placed = 0
              /\ wait_duration = None
              /\ max_pixels' = MAX_PIXELS_PER_BATCH
      /\ (InCycle /\ throttled = {}) => Counted = successes
      /\ InCycle => LeastOf(wait_duration, pp_wait_duration) = min_signal
      /\ (pc = "batch" /\ pc' = "remaining")
           => next_update' = NextUpdate(min_signal) ]_vars

\* a cycle starts after one that counted a placement and ended on a cooldown
\* computed from a timer: nothing is counted and no cooldown is held
C29_Witness ==
  /\ pc = "batch"
  /\ slot = 1
  /\ IsSome(available_at)
  /\ total_pixels_placed = 0
  /\ wait_duration = None

====
